---- MODULE Spec2Model ----
(***************************************************************************)
(* Model of the chatmymusic back end: the OAuth relay and Spotify proxy   *)
(* (server/index.ts, current version with signed state tokens), the chat  *)
(* router (chat.ts) and the earlier proxy helper of src/index.ts.         *)
(*                                                                         *)
(* The server keeps no state between requests, so the model handles one   *)
(* incoming request at a time: a Start action draws the request (route,   *)
(* cookies, query, body, clock) and the upstream's disposition, the       *)
(* handler then runs from one await to the next, and Reset returns to     *)
(* idle.  Upstream services answer nondeterministically.                  *)
(***************************************************************************)
EXTENDS Integers, Sequences, FiniteSets, TLC

\* ------------------------------------------------------------------ bounds
MaxBatches == 2      \* /artists batches needed by one /enriched/top-tracks
MaxPeriods == 1      \* clock samples: whole state lifetimes after time 0
MaxSkew == 1         \* clock samples: milliseconds past a whole lifetime
MaxOver == 1         \* snapshot lists: entries beyond the largest cut

\* ------------------------------------------------------- values and inputs
Undefined == "undefined"          \* JS undefined / absent cookie, field, param
Truthy(v) == v # Undefined

AccessTokens == {"tA", "tB"}      \* tA: in the request cookie; tB: newly issued

\* The four single-call proxy routes share one shape.
SpotifyRoutes == {"/spotify/me", "/spotify/top-tracks", "/spotify/top-artists",
                  "/spotify/recent"}

VARIABLES
    route,      \* route of the request being handled, "idle" when none
    pc,         \* position of the route handler
    req,        \* the incoming request: cookies, query, body, Date.now()
    live,       \* access tokens the Spotify API currently accepts
    res,        \* the express response object
    calls,      \* the sfetch invocations of this request, in call order
    todo,       \* /enriched/top-tracks: /artists batches still to fetch
    tokReqs,    \* requests sent to the token endpoint for this request
    chatReqs,   \* requests sent to the chat endpoint for this request
    chatSent,   \* the snapshot forwarded to the chat endpoint
    chatGot,    \* status of the chat endpoint's answer, 0 while there is none
    verified,   \* /auth/callback: what verifyState returned
    exchange,   \* /auth/callback: what the token endpoint answered
    uncaught,   \* the handler's promise rejected with nobody catching it
    apiKey      \* chat.ts API_KEY, fixed at start-up

vars == <<route, pc, req, live, res, calls, todo, tokReqs, chatReqs, chatSent,
          chatGot, verified, exchange, uncaught, apiKey>>

\* ------------------------------------------------------- request, response
NoState == [given |-> FALSE, parts |-> <<>>]
NoSnapshot == [tag |-> "undefined"]     \* no snapshot in the body

BlankReq ==
    [access |-> Undefined, refresh |-> Undefined, code |-> Undefined,
     state |-> NoState, returnTo |-> Undefined, now |-> 0,
     question |-> Undefined, snapshot |-> NoSnapshot]

NoBody == [kind |-> "none", v |-> ""]
Text(s) == [kind |-> "text", v |-> s]          \* res.send(string)
Json(s) == [kind |-> "json", v |-> s]          \* res.json(value)
ErrorJson(s) == [kind |-> "error", v |-> s]    \* res.json({ error: s })

NoLocation == [url |-> Undefined, state |-> NoState]

BlankRes ==
    [sent |-> 0, status |-> 0, body |-> NoBody, access |-> Undefined,
     refresh |-> Undefined, location |-> NoLocation]

\* res.status(st).send/json(body): the one place a response leaves the server.
Respond(r, st, body) ==
    [r EXCEPT !.sent = @ + 1, !.status = st, !.body = body]

\* res.redirect(url): 302 with a Location header; st is the state parameter
\* of the URL when it has one.
Redirect(r, url, st) ==
    [r EXCEPT !.sent = @ + 1, !.status = 302,
              !.location = [url |-> url, state |-> st]]

\* e.message || fallback
MessageOr(msg, fallback) == IF msg = "" THEN fallback ELSE msg

\* ------------------------------------------------- signed state tokens
SessionSecret == "SESSION_SECRET"
StateTtlMs == 10 * 60 * 1000
DefaultReturnTo == "http://127.0.0.1:4200"
SpotifyAuth == "https://accounts.spotify.com/authorize"
SigLen == 43            \* characters of a base64url SHA-256 digest

NoPayload == [n |-> Undefined, rt |-> Undefined, exp |-> 0]
PayloadKeys == {"n", "rt", "exp"}

\* JSON.stringify of a StatePayload: a key whose value is undefined is left out.
JsonStringify(p) ==
    [k \in {x \in PayloadKeys : x = "exp" \/ Truthy(p[x]) } |-> p[k]]

\* JSON.parse followed by property reads: a key that is absent reads undefined.
JsonParse(t) ==
    [n |-> IF "n" \in DOMAIN t THEN t["n"] ELSE Undefined,
     rt |-> IF "rt" \in DOMAIN t THEN t["rt"] ELSE Undefined,
     exp |-> t["exp"]]

\* Buffer.from(text).toString("base64url") and back.
Base64Url(text) == [k |-> "b64", data |-> text]
Base64UrlDecode(part) == part.data

\* crypto.createHmac("sha256", key).update(body).digest("base64url")
Hmac(key, body) == [k |-> "sig", key |-> key, msg |-> body, len |-> SigLen]

\* A state string is the sequence of its "."-separated parts; EmptyPart is "".
EmptyPart == [k |-> "empty"]
StateString(parts) == [given |-> TRUE, parts |-> parts]
Falsy(part) == part = EmptyPart

signState(p) ==
    LET body == Base64Url(JsonStringify(p))
        sig == Hmac(SessionSecret, body)
    IN  StateString(<<body, sig>>)

\* crypto.timingSafeEqual(Buffer.from(a), Buffer.from(b)): a RangeError when
\* the byte lengths differ.
TimingSafeEqual(a, b) ==
    IF a.len # b.len THEN "throws" ELSE IF a = b THEN "equal" ELSE "differ"

VNull == [kind |-> "null", p |-> NoPayload]
VThrows == [kind |-> "throws", p |-> NoPayload]
VPayload(p) == [kind |-> "payload", p |-> p]

\* (mutant) a state is rejected from its expiry instant on.
verifyStateEarly(state, now) ==
    IF ~state.given \/ state.parts = <<EmptyPart>> THEN VNull
    ELSE IF Len(state.parts) < 2 THEN VNull
    ELSE LET body == state.parts[1]
             sig == state.parts[2]
         IN  IF Falsy(body) \/ Falsy(sig) THEN VNull
             ELSE LET eq == TimingSafeEqual(sig, Hmac(SessionSecret, body))
                  IN  IF eq = "throws" THEN VThrows
                      ELSE IF eq = "differ" THEN VNull
                      ELSE LET payload == JsonParse(Base64UrlDecode(body))
                           IN  IF now >= payload.exp THEN VNull
                               ELSE VPayload(payload)

verifyState(state, now) ==
    IF ~state.given \/ state.parts = <<EmptyPart>> THEN VNull
    ELSE IF Len(state.parts) < 2 THEN VNull
    ELSE LET body == state.parts[1]
             sig == state.parts[2]
         IN  IF Falsy(body) \/ Falsy(sig) THEN VNull
             ELSE LET eq == TimingSafeEqual(sig, Hmac(SessionSecret, body))
                  IN  IF eq = "throws" THEN VThrows
                      ELSE IF eq = "differ" THEN VNull
                      ELSE LET payload == JsonParse(Base64UrlDecode(body))
                           IN  IF now > payload.exp THEN VNull
                               ELSE VPayload(payload)

\* Date.now() as the requests see it: around whole lifetimes of a state.
Times == {k * StateTtlMs + e : k \in 0..MaxPeriods, e \in 0..MaxSkew}
Nonces == {"n1"}
ReturnTos == {Undefined, "https://app.example/return"}

\* The payload GET /auth/login signs at time now.
LoginPayload(nonce, returnTo, now) ==
    [n |-> nonce,
     rt |-> IF Truthy(returnTo) THEN returnTo ELSE DefaultReturnTo,
     exp |-> now + StateTtlMs]

\* States a login at or before `now` has handed out.
IssuedStates(now) ==
    {signState(LoginPayload(n, r, t)) :
        n \in Nonces, r \in ReturnTos, t \in {x \in Times : x <= now}}

\* What a client without the secret can send instead of an issued state s.
Tampered(s) ==
    LET body == s.parts[1]
        sig == s.parts[2]
        p == JsonParse(Base64UrlDecode(body))
        other == Base64Url(JsonStringify([p EXCEPT !.rt = "https://evil.example",
                                                   !.exp = @ + StateTtlMs]))
    IN  { StateString(<<body>>),
          StateString(<<body, EmptyPart>>),
          StateString(<<EmptyPart, sig>>),
          StateString(<<other, sig>>),
          StateString(<<body, Hmac("guess", body)>>),
          StateString(<<body, [sig EXCEPT !.len = SigLen - 1]>>),
          StateString(<<body, [Hmac("guess", body) EXCEPT !.len = SigLen + 1]>>),
          StateString(<<body, sig, sig>>) }

CallbackStates(now) ==
    {NoState, StateString(<<EmptyPart>>)}
    \cup IssuedStates(now)
    \cup UNION {Tampered(s) : s \in IssuedStates(now)}

\* ---------------------------------------------------- chat.ts: snapshot
TopTracksN == 25
TopArtistsN == 20
RecentN == 20

\* JSON values are tagged: "undefined", "null", "str", "obj", "arr" (items).
\* Only the tags the handlers tell apart are kept.
JUndefined == [tag |-> "undefined"]
JString == [tag |-> "str"]
JArray(items) == [tag |-> "arr", items |-> items]
NullEntry == [tag |-> "null"]

Min(a, b) == IF a <= b THEN a ELSE b

\* s?.field
Field(s, name) == IF s.tag = "obj" THEN s[name] ELSE JUndefined
\* v || []
OrEmpty(v) == IF v.tag \in {"undefined", "null"} THEN JArray(<<>>) ELSE v

\* (mutant) the cut is taken one entry too far.
topNOffByOne(a, n) ==
    IF a.tag = "arr" THEN SubSeq(a.items, 1, Min(n + 1, Len(a.items))) ELSE <<>>

\* topN = (a, n) => (Array.isArray(a) ? a.slice(0, n) : [])
topN(a, n) ==
    IF a.tag = "arr" THEN SubSeq(a.items, 1, Min(n, Len(a.items))) ELSE <<>>

\* The three .map callbacks.
SlimTrack(t) == [id |-> t.id, name |-> t.name, uri |-> t.uri, artists |-> t.artists]
SlimArtist(a) ==
    [id |-> a.id, name |-> a.name, genres |-> a.genres,
     popularity |-> a.popularity]
SlimRecent(r) ==
    [played_at |-> r.played_at, id |-> r.id, name |-> r.name,
     artists |-> r.artists]
SlimProfile(pr) ==
    IF pr.tag = "obj"
    THEN [tag |-> "obj", id |-> pr.id, displayName |-> pr.displayName,
          country |-> pr.country]
    ELSE pr

\* Reading a property of a null entry is a TypeError.
MapThrows(items) == \E i \in DOMAIN items : items[i] = NullEntry

compactSnapshot(s) ==
    LET tracks == topN(OrEmpty(Field(s, "topTracks")), TopTracksN)
        artists == topN(OrEmpty(Field(s, "topArtists")), TopArtistsN)
        recent == topN(OrEmpty(Field(s, "recent")), RecentN)
    IN  IF MapThrows(tracks) \/ MapThrows(artists) \/ MapThrows(recent)
        THEN [kind |-> "throws", v |-> JUndefined]
        ELSE [kind |-> "ok",
              v |-> [tag |-> "slim",
                     generatedAt |-> Field(s, "generatedAt"),
                     profile |-> SlimProfile(Field(s, "profile")),
                     topTracks |-> [i \in DOMAIN tracks |-> SlimTrack(tracks[i])],
                     topArtists |-> [i \in DOMAIN artists |-> SlimArtist(artists[i])],
                     recent |-> [i \in DOMAIN recent |-> SlimRecent(recent[i])]]]

\* Snapshots a client posts: entries as the Spotify API returns them (more
\* fields than the compact form keeps), lists around the cuts, possibly
\* ending in a null entry, and fields that are missing or no array.
TrackEntry(i) ==
    [id |-> i, name |-> "track", uri |-> "spotify:track", artists |-> "artists",
     popularity |-> 50, duration_ms |-> 1000]
ArtistEntry(i) ==
    [id |-> i, name |-> "artist", genres |-> "genres", popularity |-> 50,
     followers |-> 7]
RecentEntry(i) ==
    [played_at |-> "time", id |-> i, name |-> "track", artists |-> "artists",
     context |-> "playlist"]

Lens == {0, 1, TopArtistsN, TopTracksN} \cup {TopTracksN + k : k \in 1..MaxOver}

ListsOf(Entry(_)) ==
    {JArray([i \in 1..n |-> IF withNull /\ i = n THEN NullEntry ELSE Entry(i)]) :
        n \in Lens, withNull \in BOOLEAN}
    \cup {JUndefined, JString}

Profile ==
    [tag |-> "obj", id |-> "user", displayName |-> "name", country |-> "SE",
     email |-> "mail"]

Snapshots ==
    {[tag |-> "obj", generatedAt |-> "2025-01-01", profile |-> Profile,
      topTracks |-> a, topArtists |-> b, recent |-> c] :
        a \in ListsOf(TrackEntry), b \in ListsOf(ArtistEntry),
        c \in ListsOf(RecentEntry)}
    \cup {JString}

\* ------------------------------------------------------------ the upstream
\* Spotify API: a token it does not accept gets 401; any request may also
\* meet another non-OK status, a body that is not JSON, or a network failure.
ApiAnswers(bearer) ==
    IF bearer \in live THEN {"ok", "malformed", "err", "netfail"}
    ELSE {"401", "err", "netfail"}

ApiErrText(a) == IF a = "401" THEN "spotify 401 text" ELSE "spotify error text"
ApiErrTexts == {"spotify 401 text", "spotify error text"}

\* Token endpoint, refresh grant: OK with a JSON body that may or may not hold
\* access_token / refresh_token, OK with a broken body, non-OK, or no answer.
TokenAnswers ==
    [kind : {"ok"}, access_token : {Undefined, "tB"},
     refresh_token : {Undefined, "rB"}]
    \cup [kind : {"malformed", "nonok", "netfail"}, access_token : {Undefined},
          refresh_token : {Undefined}]

\* No answer of the token endpoint yet.
NoAnswer == [kind |-> "none", access_token |-> Undefined,
             refresh_token |-> Undefined]

FetchFailed == "fetch failed"                       \* fetch() rejected
JsonSyntaxError == "Unexpected token in JSON"       \* r.json() rejected
HeadersSent == "Cannot set headers after they are sent to the client"
RefreshFailed == "Unauthorized and refresh failed"

\* ------------------------------------------------------------------ sfetch
\* One sfetch invocation.  pc: "first" (first request in flight), "refresh"
\* (token request in flight), "retry" (second request in flight), "ok"
\* (returned resp.json()), "thrown" (rejected with message result).
\* sent: the bearer of each API request; got: the answer to each; tokSent:
\* the refresh token of each token request; issued: what the refresh returned.
NewCall(cookie) ==
    [pc |-> "first", access |-> cookie, sent |-> <<>>, got |-> <<>>,
     tokSent |-> <<>>, tokGot |-> <<>>,
     issued |-> Undefined, result |-> ""]

Running(c) == c.pc \in {"first", "refresh", "retry"}
Throw(c, msg) == [c EXCEPT !.pc = "thrown", !.result = msg]

\* (mutant) the cookie is written without the `if (json.access_token)` test.
CookieOutcomeUnguarded(r, name, value) ==
    IF r.sent > 0 THEN [r |-> r, threw |-> TRUE]
    ELSE [r |-> IF name = "spotify_access_token"
                THEN [r EXCEPT !.access = value]
                ELSE [r EXCEPT !.refresh = value],
          threw |-> FALSE]

\* `if (value) res.cookie(name, value, opts)`: res.cookie throws once the
\* response has been sent.
CookieOutcome(r, name, value) ==
    IF ~Truthy(value) THEN [r |-> r, threw |-> FALSE]
    ELSE IF r.sent > 0 THEN [r |-> r, threw |-> TRUE]
    ELSE [r |-> IF name = "spotify_access_token"
                THEN [r EXCEPT !.access = value]
                ELSE [r EXCEPT !.refresh = value],
          threw |-> FALSE]

\* refreshAccessToken from the token endpoint's answer t on: what it returns
\* ("null", a token, or "throws" with msg) and the response it leaves.
RefreshReturn(r, t) ==
    IF t.kind = "netfail"
    THEN [ret |-> "throws", msg |-> FetchFailed, r |-> r, got |-> t]
    ELSE IF t.kind = "nonok"
    THEN [ret |-> Undefined, msg |-> "", r |-> r, got |-> t]
    ELSE IF t.kind = "malformed"
    THEN [ret |-> "throws", msg |-> JsonSyntaxError, r |-> r, got |-> t]
    ELSE LET a == CookieOutcome(r, "spotify_access_token", t.access_token)
             b == CookieOutcome(a.r, "spotify_refresh_token", t.refresh_token)
         IN  IF a.threw
             THEN [ret |-> "throws", msg |-> HeadersSent, r |-> r, got |-> t]
             ELSE IF b.threw
             THEN [ret |-> "throws", msg |-> HeadersSent, r |-> a.r, got |-> t]
             ELSE [ret |-> t.access_token, msg |-> "", r |-> b.r, got |-> t]

\* The call after the answer a to `await doFetch()` at pc "first".
AfterFirst(c, a) ==
    LET c1 == [c EXCEPT !.sent = Append(@, c.access), !.got = Append(@, a)]
    IN  IF a = "netfail" THEN Throw(c1, FetchFailed)
        ELSE IF a = "401"
        THEN IF ~Truthy(req.refresh) THEN Throw(c1, RefreshFailed)
             ELSE [c1 EXCEPT !.pc = "refresh"]
        ELSE IF a = "err" THEN Throw(c1, ApiErrText(a))
        ELSE IF a = "malformed" THEN Throw(c1, JsonSyntaxError)
        ELSE [c1 EXCEPT !.pc = "ok", !.result = "json1"]

\* (mutant) the retry keeps the access token of the request cookie.
AfterRefreshStale(c, rr) ==
    LET c1 == [c EXCEPT !.tokSent = Append(@, req.refresh),
                        !.tokGot = Append(@, rr.got)]
    IN  IF rr.ret = "throws" THEN Throw(c1, rr.msg)
        ELSE IF ~Truthy(rr.ret) THEN Throw(c1, RefreshFailed)
        ELSE [c1 EXCEPT !.pc = "retry", !.issued = rr.ret]

\* The call after refreshAccessToken returned rr.
AfterRefresh(c, rr) ==
    LET c1 == [c EXCEPT !.tokSent = Append(@, req.refresh),
                        !.tokGot = Append(@, rr.got)]
    IN  IF rr.ret = "throws" THEN Throw(c1, rr.msg)
        ELSE IF ~Truthy(rr.ret) THEN Throw(c1, RefreshFailed)
        ELSE [c1 EXCEPT !.pc = "retry", !.access = rr.ret, !.issued = rr.ret]

\* (mutant) a 401 on the retry starts another refresh.
AfterRetryLoop(c, a) ==
    LET c1 == [c EXCEPT !.sent = Append(@, c.access), !.got = Append(@, a)]
    IN  IF a = "netfail" THEN Throw(c1, FetchFailed)
        ELSE IF a = "401" THEN [c1 EXCEPT !.pc = "refresh"]
        ELSE IF a = "err" THEN Throw(c1, ApiErrText(a))
        ELSE IF a = "malformed" THEN Throw(c1, JsonSyntaxError)
        ELSE [c1 EXCEPT !.pc = "ok", !.result = "json2"]

\* The call after the answer a to the second `await doFetch()`.
AfterRetry(c, a) ==
    LET c1 == [c EXCEPT !.sent = Append(@, c.access), !.got = Append(@, a)]
    IN  IF a = "netfail" THEN Throw(c1, FetchFailed)
        ELSE IF a \in {"401", "err"} THEN Throw(c1, ApiErrText(a))
        ELSE IF a = "malformed" THEN Throw(c1, JsonSyntaxError)
        ELSE [c1 EXCEPT !.pc = "ok", !.result = "json2"]

\* Every way call c can take its next step against response r.
SfetchOutcomes(c, r) ==
    IF c.pc = "first"
    THEN {[c |-> AfterFirst(c, a), r |-> r] : a \in ApiAnswers(c.access)}
    ELSE IF c.pc = "refresh"
    THEN {[c |-> AfterRefresh(c, RefreshReturn(r, t)),
           r |-> RefreshReturn(r, t).r] : t \in TokenAnswers}
    ELSE {[c |-> AfterRetry(c, a), r |-> r] : a \in ApiAnswers(c.access)}

TokDelta(c, c2) == Len(c2.tokSent) - Len(c.tokSent)

\* ------------------------------------------------------------ start, reset
Init ==
    /\ route = "idle" /\ pc = "idle"
    /\ req = BlankReq /\ live = {}
    /\ res = BlankRes
    /\ calls = <<>> /\ todo = 0
    /\ tokReqs = 0 /\ chatReqs = 0
    /\ chatSent = NoSnapshot /\ chatGot = 0
    /\ verified = VNull /\ exchange = NoAnswer
    /\ uncaught = FALSE
    /\ apiKey \in {Undefined, "key"}

\* A proxy request arrives: cookies as the browser holds them.
StartProxy(rt, n) ==
    /\ route = "idle"
    /\ route' = rt
    /\ pc' = "calls"
    /\ \E a \in {Undefined, "tA"}, rf \in {Undefined, "rA"} :
          req' = [BlankReq EXCEPT !.access = a, !.refresh = rf]
    /\ live' \in SUBSET AccessTokens
    /\ calls' = [i \in 1..n |-> NewCall(req'.access)]
    /\ UNCHANGED <<res, todo, tokReqs, chatReqs, chatSent, chatGot, verified,
                   exchange, uncaught, apiKey>>

\* The handler has finished and the next request is awaited.
Reset ==
    /\ pc = "done"
    /\ route' = "idle" /\ pc' = "idle"
    /\ req' = BlankReq /\ live' = {}
    /\ res' = BlankRes
    /\ calls' = <<>> /\ todo' = 0
    /\ tokReqs' = 0 /\ chatReqs' = 0
    /\ chatSent' = NoSnapshot /\ chatGot' = 0
    /\ verified' = VNull /\ exchange' = NoAnswer
    /\ uncaught' = FALSE
    /\ UNCHANGED apiKey

\* --------------------------------------------------- /spotify/* (4 routes)
\* try { res.json(await sfetch(req, res, path)) }
\* catch (e) { res.status(500).send(e.message || "Error") }
SpotifyStart == \E rt \in SpotifyRoutes : StartProxy(rt, 1)

SpotifyStep ==
    /\ route \in SpotifyRoutes /\ pc = "calls"
    /\ \E o \in SfetchOutcomes(calls[1], res) :
          /\ calls' = <<o.c>>
          /\ tokReqs' = tokReqs + TokDelta(calls[1], o.c)
          /\ IF o.c.pc = "ok"
             THEN res' = Respond(o.r, 200, Json(o.c.result)) /\ pc' = "done"
             ELSE IF o.c.pc = "thrown"
             THEN /\ res' = Respond(o.r, 500, Text(MessageOr(o.c.result, "Error")))
                  /\ pc' = "done"
             ELSE res' = o.r /\ pc' = pc
    /\ UNCHANGED <<route, req, live, todo, chatReqs, chatSent, chatGot,
                   verified, exchange, uncaught, apiKey>>

\* ---------------------------------------------------- /enriched/top-tracks
\* One sfetch for the top tracks, then one per batch of 50 artist ids, each
\* awaited before the next starts; the last call in `calls` is the live one.
TypeErrorText == "Cannot read properties of undefined"

EnrichedStart ==
    StartProxy("/enriched/top-tracks", 1)

EnrichedStep ==
    /\ route = "/enriched/top-tracks" /\ pc = "calls"
    /\ LET k == Len(calls) IN
       \E o \in SfetchOutcomes(calls[k], res) :
          LET done == [calls EXCEPT ![k] = o.c] IN
          /\ tokReqs' = tokReqs + TokDelta(calls[k], o.c)
          /\ IF o.c.pc = "thrown"
             THEN /\ calls' = done /\ todo' = todo /\ pc' = "done"
                  /\ res' = Respond(o.r, 500,
                                    ErrorJson(MessageOr(o.c.result, "failed")))
             ELSE IF Running(o.c)
             THEN calls' = done /\ todo' = todo /\ pc' = pc /\ res' = o.r
             ELSE IF k = 1
             THEN \* top.items decides the number of /artists batches
                  \/ /\ calls' = done /\ todo' = todo /\ pc' = "done"
                     /\ res' = Respond(o.r, 500, ErrorJson(TypeErrorText))
                  \/ \E n \in 0..MaxBatches :
                        IF n = 0
                        THEN /\ calls' = done /\ todo' = 0 /\ pc' = "done"
                             /\ res' = Respond(o.r, 200, Json("items"))
                        ELSE /\ calls' = Append(done, NewCall(req.access))
                             /\ todo' = n - 1 /\ pc' = pc /\ res' = o.r
             ELSE IF todo > 0
             THEN /\ calls' = Append(done, NewCall(req.access))
                  /\ todo' = todo - 1 /\ pc' = pc /\ res' = o.r
             ELSE /\ calls' = done /\ todo' = 0 /\ pc' = "done"
                  /\ res' = Respond(o.r, 200, Json("items"))
    /\ UNCHANGED <<route, req, live, chatReqs, chatSent, chatGot, verified,
                   exchange, uncaught, apiKey>>

\* -------------------------------------------------------- /debug/topcounts
\* Promise.all over three sfetch calls started together: the first rejection
\* sends the 500 while the other calls keep running; three results send 200.
TopCountsCalls == 3

TopCountsStart ==
    StartProxy("/debug/topcounts", TopCountsCalls)

TopCountsStep ==
    /\ route = "/debug/topcounts" /\ pc = "calls"
    /\ \E i \in DOMAIN calls :
          /\ Running(calls[i])
          /\ \E o \in SfetchOutcomes(calls[i], res) :
                LET after == [calls EXCEPT ![i] = o.c] IN
                /\ calls' = after
                /\ tokReqs' = tokReqs + TokDelta(calls[i], o.c)
                /\ res' =
                     IF o.c.pc = "thrown" /\ o.r.sent = 0
                     THEN Respond(o.r, 500,
                                  ErrorJson(MessageOr(o.c.result, "failed")))
                     ELSE IF \A j \in DOMAIN after : after[j].pc = "ok"
                     THEN Respond(o.r, 200, Json("counts"))
                     ELSE o.r
                /\ pc' = IF \E j \in DOMAIN after : Running(after[j])
                         THEN pc ELSE "done"
    /\ UNCHANGED <<route, req, live, todo, chatReqs, chatSent, chatGot,
                   verified, exchange, uncaught, apiKey>>

\* -------------------------------------------------------------- /auth/*
\* GET /auth/login: synchronous, one redirect carrying a freshly signed state.
AuthLogin ==
    /\ route = "idle"
    /\ \E now \in Times, returnTo \in ReturnTos, nonce \in Nonces :
          /\ req' = [BlankReq EXCEPT !.now = now, !.returnTo = returnTo]
          /\ res' = Redirect(res, SpotifyAuth,
                             signState(LoginPayload(nonce, returnTo, now)))
    /\ route' = "/auth/login" /\ pc' = "done"
    /\ UNCHANGED <<live, calls, todo, tokReqs, chatReqs, chatSent, chatGot,
                   verified, exchange, uncaught, apiKey>>

\* An async handler without try/catch rejected.  Express 4 drops the promise
\* (the client gets no response); Express 5 hands the error to its default
\* handler, which answers 500 unless the response was already sent.
Uncaught(r) ==
    {r} \cup (IF r.sent = 0
              THEN {Respond(r, 500, Text("Internal Server Error"))} ELSE {})

\* GET /auth/callback up to its first await.
CallbackStart ==
    /\ route = "idle"
    /\ route' = "/auth/callback"
    /\ \E now \in Times, code \in {Undefined, "code"} :
       \E state \in CallbackStates(now) :
          LET v == verifyState(state, now) IN
          /\ req' = [BlankReq EXCEPT !.now = now, !.code = code, !.state = state]
          /\ verified' = v
          /\ IF v.kind = "throws"
             THEN /\ uncaught' = TRUE /\ pc' = "done" /\ tokReqs' = tokReqs
                  /\ res' \in Uncaught(res)
             ELSE IF ~Truthy(code) \/ v.kind = "null"
             THEN /\ res' = Respond(res, 400, Text("State mismatch or missing code."))
                  /\ uncaught' = uncaught /\ pc' = "done" /\ tokReqs' = tokReqs
             ELSE /\ tokReqs' = tokReqs + 1 /\ pc' = "exchange"
                  /\ res' = res /\ uncaught' = uncaught
    /\ UNCHANGED <<live, calls, todo, chatReqs, chatSent, chatGot, exchange,
                   apiKey>>

TokenErrText == "token endpoint error text"

\* GET /auth/callback from the token endpoint's answer on.
CallbackExchange ==
    /\ route = "/auth/callback" /\ pc = "exchange"
    /\ pc' = "done"
    /\ \E t \in TokenAnswers :
          /\ exchange' = t
          /\ IF t.kind \in {"netfail", "malformed"}
             THEN uncaught' = TRUE /\ res' \in Uncaught(res)
             ELSE
               /\ uncaught' = uncaught
               /\ IF t.kind = "nonok"
                  THEN res' = Respond(res, 500,
                                      Text("Token exchange failed: " \o TokenErrText))
                  ELSE LET a == CookieOutcome(res, "spotify_access_token",
                                              t.access_token)
                           b == CookieOutcome(a.r, "spotify_refresh_token",
                                              t.refresh_token)
                       IN  res' = Redirect(b.r,
                                           IF Truthy(verified.p.rt)
                                           THEN verified.p.rt ELSE "/connected",
                                           NoState)
    /\ UNCHANGED <<route, req, live, calls, todo, tokReqs, chatReqs, chatSent,
                   chatGot, verified, apiKey>>

\* ------------------------------------------------------------------ /chat
\* The chat endpoint: OK with a completion, OK with a body that does not
\* parse, a non-OK status with its text, or no answer.
ChatStatuses == {401, 429, 500}
ChatAnswers ==
    [kind : {"ok", "malformed", "netfail"}, status : {200}]
    \cup [kind : {"nonok"}, status : ChatStatuses]
ChatErrText == "chat endpoint error text"
MissingInput == "Missing question or snapshot"
MissingKey == "Missing DIGITALOCEAN_AGENT_KEY (or INFERENCE_KEY)"
NullEntryText == "Cannot read properties of null"

\* (mutant) the API key is looked at before the body.
ChatPrecheckKeyFirst(q, s, key) ==
    IF ~Truthy(key) THEN "nokey"
    ELSE IF ~Truthy(q) \/ s = NoSnapshot THEN "missing"
    ELSE "go"

\* The two early returns of POST /chat, in the order of the code.
ChatPrecheck(q, s, key) ==
    IF ~Truthy(q) \/ s = NoSnapshot THEN "missing"
    ELSE IF ~Truthy(key) THEN "nokey"
    ELSE "go"

\* POST /chat up to its await fetch(URL_CHAT).
ChatStart ==
    /\ route = "idle"
    /\ route' = "/chat"
    /\ \E q \in {Undefined, "question"}, s \in Snapshots \cup {NoSnapshot} :
          LET slim == compactSnapshot(s)
              check == ChatPrecheck(q, s, apiKey)
          IN
          /\ req' = [BlankReq EXCEPT !.question = q, !.snapshot = s]
          /\ IF check = "missing"
             THEN /\ res' = Respond(res, 400, ErrorJson(MissingInput))
                  /\ pc' = "done" /\ chatReqs' = chatReqs /\ chatSent' = chatSent
             ELSE IF check = "nokey"
             THEN /\ res' = Respond(res, 500, ErrorJson(MissingKey))
                  /\ pc' = "done" /\ chatReqs' = chatReqs /\ chatSent' = chatSent
             ELSE IF slim.kind = "throws"
             THEN /\ res' = Respond(res, 500, ErrorJson(NullEntryText))
                  /\ pc' = "done" /\ chatReqs' = chatReqs /\ chatSent' = chatSent
             ELSE /\ res' = res /\ pc' = "chat"
                  /\ chatReqs' = chatReqs + 1 /\ chatSent' = slim.v
    /\ UNCHANGED <<live, calls, todo, tokReqs, chatGot, verified, exchange, uncaught,
                   apiKey>>

\* (mutant) a non-OK answer of the chat endpoint is reported as a plain 500.
ChatErrorStatusGeneric(a) == IF a.status = 0 THEN 0 ELSE 500

\* res.status(r.status): the chat endpoint's own status goes to the client.
ChatErrorStatus(a) == a.status

\* POST /chat from the chat endpoint's answer on.
ChatAnswer ==
    /\ route = "/chat" /\ pc = "chat"
    /\ pc' = "done"
    /\ \E a \in ChatAnswers :
          /\ chatGot' = IF a.kind = "netfail" THEN 0 ELSE a.status
          /\ res' = IF a.kind = "netfail"
                    THEN Respond(res, 500, ErrorJson(FetchFailed))
                    ELSE IF a.kind = "nonok"
                    THEN Respond(res, ChatErrorStatus(a), ErrorJson(ChatErrText))
                    ELSE IF a.kind = "malformed"
                    THEN Respond(res, 500, ErrorJson(JsonSyntaxError))
                    ELSE Respond(res, 200, Json("answer"))
    /\ UNCHANGED <<route, req, live, calls, todo, tokReqs, chatReqs, chatSent,
                   verified, exchange, uncaught, apiKey>>

\* GET /chat/test: the request is sent whether or not a key is configured.
ChatTestStart ==
    /\ route = "idle"
    /\ route' = "/chat/test" /\ pc' = "chat"
    /\ chatReqs' = chatReqs + 1
    /\ UNCHANGED <<req, live, res, calls, todo, tokReqs, chatSent, chatGot,
                   verified, exchange, uncaught, apiKey>>

\* res.status(r.status).type("application/json").send(text)
ChatTestAnswer ==
    /\ route = "/chat/test" /\ pc = "chat"
    /\ pc' = "done"
    /\ \E a \in ChatAnswers :
          /\ chatGot' = IF a.kind = "netfail" THEN 0 ELSE a.status
          /\ res' = IF a.kind = "netfail"
                    THEN Respond(res, 500, ErrorJson(FetchFailed))
                    ELSE IF a.kind = "nonok"
                    THEN Respond(res, ChatErrorStatus(a), Text(ChatErrText))
                    ELSE Respond(res, a.status, Text("completion"))
    /\ UNCHANGED <<route, req, live, calls, todo, tokReqs, chatReqs, chatSent,
                   verified, exchange, uncaught, apiKey>>

\* ------------------------------------------ src/index.ts (earlier server)
\* Its routes are told apart from the current ones by the "index.ts" prefix.
OldRefreshRoute == "index.ts /auth/refresh"
OldSpotifyRoutes ==
    {"index.ts /spotify/me", "index.ts /spotify/top-tracks",
     "index.ts /spotify/top-artists", "index.ts /spotify/recent",
     "index.ts /spotify/features"}

\* GET /auth/refresh up to its first await, for a request with the cookie
\* refresh: without it the handler answers 401 at once.
OldRefreshEntry(refresh) ==
    IF ~Truthy(refresh) THEN [status |-> 401, tokenRequest |-> FALSE]
    ELSE [status |-> 0, tokenRequest |-> TRUE]

\* The cookies of the request sfetch sends to its own /auth/refresh:
\* fetch(url) is called without headers, so none of the user's cookies.
OldNestedCookie(refresh) == Undefined

OldRefreshStart ==
    /\ route = "idle"
    /\ route' = OldRefreshRoute
    /\ \E rf \in {Undefined, "rA"} :
          LET e == OldRefreshEntry(rf) IN
          /\ req' = [BlankReq EXCEPT !.refresh = rf]
          /\ IF e.tokenRequest
             THEN res' = res /\ pc' = "refresh" /\ tokReqs' = tokReqs + 1
             ELSE /\ res' = Respond(res, e.status, Text("No refresh token"))
                  /\ pc' = "done" /\ tokReqs' = tokReqs
    /\ UNCHANGED <<live, calls, todo, chatReqs, chatSent, chatGot, verified,
                   exchange, uncaught, apiKey>>

\* const json = await r.json(); res.cookie(..., json.access_token);
\* res.json({ ok: true }) -- r.ok is not looked at.
OldRefreshAnswer ==
    /\ route = OldRefreshRoute /\ pc = "refresh"
    /\ pc' = "done"
    /\ \E t \in TokenAnswers :
          IF t.kind \in {"netfail", "malformed"}
          THEN uncaught' = TRUE /\ res' \in Uncaught(res)
          ELSE /\ uncaught' = uncaught
               /\ res' = Respond([res EXCEPT !.access = t.access_token], 200,
                                 Json("ok"))
    /\ UNCHANGED <<route, req, live, calls, todo, tokReqs, chatReqs, chatSent,
                   chatGot, verified, exchange, apiKey>>

\* sfetch(req, path) of src/index.ts, one step of its call c.  At "refresh"
\* the answer of its own /auth/refresh is awaited and then ignored; access is
\* read again from the cookies of the incoming request.
OldSfetchOutcomes(c) ==
    IF c.pc = "first"
    THEN {LET c1 == [c EXCEPT !.sent = Append(@, c.access), !.got = Append(@, a)]
          IN  IF a = "netfail" THEN Throw(c1, FetchFailed)
              ELSE IF a = "401" THEN [c1 EXCEPT !.pc = "refresh"]
              ELSE IF a = "err" THEN Throw(c1, ApiErrText(a))
              ELSE IF a = "malformed" THEN Throw(c1, JsonSyntaxError)
              ELSE [c1 EXCEPT !.pc = "ok", !.result = "json1"]
          : a \in ApiAnswers(c.access)}
    ELSE IF c.pc = "refresh"
    THEN LET e == OldRefreshEntry(OldNestedCookie(req.refresh))
             c1 == IF e.tokenRequest
                   THEN [c EXCEPT !.tokSent = Append(@, req.refresh)] ELSE c
         IN  {Throw(c1, FetchFailed),
              [c1 EXCEPT !.pc = "retry", !.access = req.access]}
    ELSE {AfterRetry(c, a) : a \in ApiAnswers(c.access)}

OldSpotifyStart ==
    /\ \E rt \in OldSpotifyRoutes : StartProxy(rt, 1)

\* app.get(path, async (req, res) => res.json(await sfetch(req, path)))
OldSpotifyStep ==
    /\ route \in OldSpotifyRoutes /\ pc = "calls"
    /\ \E c \in OldSfetchOutcomes(calls[1]) :
          /\ calls' = <<c>>
          /\ tokReqs' = tokReqs + TokDelta(calls[1], c)
          /\ IF c.pc = "ok"
             THEN /\ res' = Respond(res, 200, Json(c.result))
                  /\ pc' = "done" /\ uncaught' = uncaught
             ELSE IF c.pc = "thrown"
             THEN res' \in Uncaught(res) /\ pc' = "done" /\ uncaught' = TRUE
             ELSE res' = res /\ pc' = pc /\ uncaught' = uncaught
    /\ UNCHANGED <<route, req, live, todo, chatReqs, chatSent, chatGot,
                   verified, exchange, apiKey>>

Next ==
    \/ SpotifyStart
    \/ SpotifyStep
    \/ EnrichedStart
    \/ EnrichedStep
    \/ TopCountsStart
    \/ TopCountsStep
    \/ AuthLogin
    \/ CallbackStart
    \/ CallbackExchange
    \/ ChatStart
    \/ ChatAnswer
    \/ ChatTestStart
    \/ ChatTestAnswer
    \/ OldRefreshStart
    \/ OldRefreshAnswer
    \/ OldSpotifyStart
    \/ OldSpotifyStep
    \/ Reset

Spec == Init /\ [][Next]_vars

\* ================================================================== claims
NonOk == {"401", "err"}
\* The routes of the current server that go through its sfetch.
ProxyRoutes == SpotifyRoutes \cup {"/enriched/top-tracks", "/debug/topcounts"}
ChatRoutes == {"/chat", "/chat/test"}
Retried(c) == Len(c.sent) = 2
Retries == Cardinality({i \in DOMAIN calls : Retried(calls[i])})
LastGot(c) == IF c.got = <<>> THEN "none" ELSE c.got[Len(c.got)]

\* C1: every call of the current server's sfetch sends at most two API
\* requests and at most one token request; the second API request is sent
\* only after a 401 on the first and a non-empty token from
\* refreshAccessToken; a non-OK second answer ends the call with an error
\* carrying its text, without another request.
C1_SfetchOneRetry ==
    route \in ProxyRoutes =>
    \A i \in DOMAIN calls :
        LET c == calls[i] IN
        /\ Len(c.sent) <= 2
        /\ Len(c.tokSent) <= 1
        /\ Len(c.sent) >= 2 =>
              c.got[1] = "401" /\ Len(c.tokSent) = 1 /\ Truthy(c.issued)
        /\ (Len(c.got) = 2 /\ c.got[2] \in NonOk) =>
              c.pc = "thrown" /\ c.result = ApiErrText(c.got[2])

C1_Witness ==
    /\ route \in ProxyRoutes
    /\ \E i \in DOMAIN calls :
        /\ calls[i].got = <<"401", "401">>
        /\ calls[i].pc = "thrown"
        /\ Len(calls[i].tokSent) = 1

HasBodyAndSig(st) ==
    /\ Len(st.parts) >= 2
    /\ ~Falsy(st.parts[1]) /\ ~Falsy(st.parts[2])

\* The requests C3 speaks of.
Rejectable(r) ==
    \/ ~Truthy(r.code)
    \/ ~r.state.given
    \/ ~HasBodyAndSig(r.state)
    \/ r.state.parts[2] # Hmac(SessionSecret, r.state.parts[1])
    \/ r.now > JsonParse(Base64UrlDecode(r.state.parts[1])).exp

\* C3: GET /auth/callback answers 400 "State mismatch or missing code.", with
\* no token request and no cookie, whenever the code or the state is absent,
\* the state has no "."-separated body and signature, its signature (of any
\* length) is not the HMAC of its body, or its payload has expired.
C3_CallbackRejects ==
    (route = "/auth/callback" /\ Rejectable(req)) =>
        /\ pc = "done"
        /\ res.sent = 1 /\ res.status = 400
        /\ res.body = Text("State mismatch or missing code.")
        /\ tokReqs = 0
        /\ res.access = Undefined /\ res.refresh = Undefined

Payloads ==
    [n : Nonces, rt : ReturnTos \cup {DefaultReturnTo},
     exp : Times \cup {t + StateTtlMs : t \in Times}]

\* C4: verifyState(signState(p)) is p while now <= p.exp and null afterwards,
\* for every payload p; so a state issued by GET /auth/login carries
\* exp = issue time + 10 minutes and rt = return_to or the default, and the
\* callback accepts it, rt unchanged, exactly until that instant.
C4_StateRoundTrip ==
    /\ \A p \in Payloads :
          verifyState(signState(p), req.now) =
             IF req.now <= p.exp THEN VPayload(p) ELSE VNull
    /\ (route = "/auth/login" /\ pc = "done") =>
          LET p == JsonParse(Base64UrlDecode(res.location.state.parts[1])) IN
          /\ res.location.state = signState(p)
          /\ p.exp = req.now + 10 * 60 * 1000
          /\ p.rt = IF Truthy(req.returnTo) THEN req.returnTo
                    ELSE "http://127.0.0.1:4200"
    /\ (route = "/auth/callback" /\ req.state \in IssuedStates(req.now)) =>
          LET p == JsonParse(Base64UrlDecode(req.state.parts[1])) IN
          /\ req.now <= p.exp => verified = VPayload(p)
          /\ req.now > p.exp => verified = VNull /\ res.status = 400
          /\ (pc = "done" /\ res.status = 302) => res.location.url = p.rt

C4_Witness ==
    /\ route = "/auth/callback" /\ pc = "done"
    /\ req.state = signState(LoginPayload("n1", "https://app.example/return", 0))
    /\ req.now = StateTtlMs
    /\ res.status = 302 /\ res.location.url = "https://app.example/return"

ClaimedRoutes == ProxyRoutes \cup ChatRoutes \cup {"/auth/callback"}
ErrorResponse == res.sent >= 1 /\ res.status \notin {200, 302}
FailedOnApi(c) == c.pc = "thrown" /\ c.got = <<"err">>
FailedOnRetry(c) == c.pc = "thrown" /\ Len(c.got) = 2 /\ c.got[2] \in NonOk
TokenExchangeFailed == "Token exchange failed: " \o TokenErrText
UpstreamTexts == ApiErrTexts \cup {ChatErrText, TokenExchangeFailed}
UpstreamNonOk ==
    \/ chatGot \in ChatStatuses
    \/ \E i \in DOMAIN calls : LastGot(calls[i]) \in NonOk

\* C5 (as claimed): every error response of /auth/callback, /spotify/*,
\* /enriched/top-tracks, /debug/topcounts, POST /chat and GET /chat/test has
\* status 400 or 500, whatever non-OK status the upstream returned, and
\* carries the upstream's error text when an upstream answer was non-OK.
C5_Errors400Or500 ==
    (route \in ClaimedRoutes /\ ErrorResponse) =>
        /\ res.status \in {400, 500}
        /\ UpstreamNonOk => res.body.v \in UpstreamTexts

\* C5 (amended): the callback and the proxy routes answer errors with 400 or
\* 500; the chat routes pass a non-OK status of the chat endpoint through with
\* its text and use 400/500 for their own errors.  The text of the response is
\* the upstream's when the last answer of the failing sfetch call was a non-OK
\* API answer, and after a failed token exchange; a 401 followed by a failed
\* refresh gives the fixed text "Unauthorized and refresh failed".
C5_ErrorStatuses ==
    (route \in ClaimedRoutes /\ ErrorResponse) =>
        /\ route \notin ChatRoutes => res.status \in {400, 500}
        /\ (route \in ChatRoutes /\ chatGot \in ChatStatuses) =>
              res.status = chatGot /\ res.body.v = ChatErrText
        /\ (route \in ChatRoutes /\ chatGot \notin ChatStatuses) =>
              res.status \in {400, 500}
        /\ (route = "/auth/callback" /\ ~uncaught) =>
              res.body.v = IF res.status = 400
                           THEN "State mismatch or missing code."
                           ELSE TokenExchangeFailed
        /\ route \in SpotifyRoutes \cup {"/enriched/top-tracks"} =>
              LET c == calls[Len(calls)] IN
              /\ (FailedOnApi(c) \/ FailedOnRetry(c)) =>
                    res.body.v = ApiErrText(LastGot(c))
              /\ (c.pc = "thrown" /\ c.got = <<"401">>) =>
                    /\ res.body.v \notin UpstreamTexts
                    /\ (~Truthy(req.refresh) \/ ~Truthy(c.issued)) =>
                          res.body.v \in {"Unauthorized and refresh failed",
                                          FetchFailed, JsonSyntaxError}
        /\ route = "/debug/topcounts" =>
              \E i \in DOMAIN calls :
                  calls[i].pc = "thrown" /\ res.body.v = calls[i].result

C5_Witness ==
    /\ route = "/chat" /\ pc = "done"
    /\ chatGot = 429 /\ res.status = 429 /\ res.body = ErrorJson(ChatErrText)

\* C6: every incoming request ends with exactly one response: no handler
\* finishes on an uncaught exception with no response, none answers twice.
C6_ExactlyOneResponse ==
    /\ res.sent <= 1
    /\ pc = "done" => res.sent = 1 /\ ~uncaught

FirstN(v, n) ==
    IF v.tag = "arr" THEN [i \in 1..Min(n, Len(v.items)) |-> v.items[i]]
    ELSE <<>>

Forwarded == route = "/chat" /\ chatReqs = 1
Posted == route = "/chat" /\ req.snapshot # NoSnapshot

\* C7 (as claimed): the snapshot POST /chat forwards is compactSnapshot of the
\* posted one, and compactSnapshot keeps the first min(25, n) topTracks,
\* min(20, n) topArtists and min(20, n) recent entries of its input, equal to
\* the input entries and in input order; a missing or non-array field gives
\* the empty list.
C7_CompactIsPrefix ==
    Forwarded =>
       /\ chatSent = compactSnapshot(req.snapshot).v
       /\ chatSent.topTracks = FirstN(Field(req.snapshot, "topTracks"), 25)
       /\ chatSent.topArtists = FirstN(Field(req.snapshot, "topArtists"), 20)
       /\ chatSent.recent = FirstN(Field(req.snapshot, "recent"), 20)

Reduced(out, in, keys) ==
    /\ DOMAIN out = keys
    /\ \A k \in keys : out[k] = in[k]

PrefixReduced(out, v, n, keys) ==
    LET in == FirstN(v, n) IN
    /\ Len(out) = Len(in) /\ Len(out) <= n
    /\ \A i \in DOMAIN out : Reduced(out[i], in[i], keys)

KeepsNull(v, n) == \E i \in DOMAIN FirstN(v, n) : FirstN(v, n)[i] = NullEntry

\* C7 (amended): each kept entry is the input entry reduced to the fields of
\* the compact form, the cuts being 25, 20 and 20; a missing or non-array
\* field gives the empty list; a null entry among the kept ones makes
\* compactSnapshot throw, and POST /chat then answers 500 without forwarding
\* anything.
C7_CompactIsReducedPrefix ==
    Posted =>
       LET c == compactSnapshot(req.snapshot)
           t == Field(req.snapshot, "topTracks")
           a == Field(req.snapshot, "topArtists")
           r == Field(req.snapshot, "recent")
           bad == KeepsNull(t, 25) \/ KeepsNull(a, 20) \/ KeepsNull(r, 20)
       IN
       /\ c.kind = IF bad THEN "throws" ELSE "ok"
       /\ c.kind = "ok" =>
             /\ PrefixReduced(c.v.topTracks, t, 25,
                              {"id", "name", "uri", "artists"})
             /\ PrefixReduced(c.v.topArtists, a, 20,
                              {"id", "name", "genres", "popularity"})
             /\ PrefixReduced(c.v.recent, r, 20,
                              {"played_at", "id", "name", "artists"})
       /\ chatReqs = 1 => c.kind = "ok" /\ chatSent = c.v
       /\ (bad /\ pc = "done" /\ Truthy(req.question) /\ Truthy(apiKey)) =>
             res.status = 500 /\ chatReqs = 0

C7_Witness ==
    /\ route = "/chat" /\ chatReqs = 1
    /\ req.snapshot.tag = "obj"
    /\ req.snapshot.topTracks.tag = "arr"
    /\ req.snapshot.topArtists.tag = "arr"
    /\ req.snapshot.recent.tag = "arr"
    /\ Len(req.snapshot.topTracks.items) = 26
    /\ Len(req.snapshot.topArtists.items) = 25
    /\ Len(req.snapshot.recent.items) = 1
    /\ Len(chatSent.topTracks) = 25 /\ Len(chatSent.topArtists) = 20
    /\ Len(chatSent.recent) = 1
    /\ chatSent.topTracks[25].id = 25

\* C8: POST /chat sends nothing to the chat endpoint unless question, snapshot
\* and API key are all there: a missing question or snapshot gives 400
\* "Missing question or snapshot" (also when the key is missing too), a
\* missing key alone gives 500.
C8_ChatPreconditions ==
    route = "/chat" =>
       LET missing == ~Truthy(req.question) \/ req.snapshot = NoSnapshot IN
       /\ missing =>
             /\ pc = "done" /\ res.status = 400
             /\ res.body = ErrorJson("Missing question or snapshot")
             /\ chatReqs = 0
       /\ (~missing /\ ~Truthy(apiKey)) =>
             pc = "done" /\ res.status = 500 /\ chatReqs = 0
       /\ chatReqs > 0 => ~missing /\ Truthy(apiKey)

C8_Witness ==
    /\ route = "/chat" /\ pc = "done"
    /\ ~Truthy(req.question) /\ ~Truthy(apiKey)
    /\ res.status = 400 /\ chatReqs = 0

\* C9: one incoming request causes at most one token refresh and at most one
\* retried API request, whatever the number of sfetch calls of its route.
C9_OneRefreshPerRequest ==
    route \in ProxyRoutes => tokReqs <= 1 /\ Retries <= 1

\* C10: in the sfetch of src/index.ts a 401 on the first request runs the
\* refresh flow with the user's refresh token and the retry carries the
\* refreshed access token, so an expired access token with a valid refresh
\* token still gets its answer.
C10_OldSfetchRefreshes ==
    (route \in OldSpotifyRoutes /\ Truthy(req.refresh) /\ Retried(calls[1])) =>
        LET c == calls[1] IN
        /\ c.tokSent = <<req.refresh>> /\ tokReqs = 1
        /\ c.sent[2] # c.sent[1]
        /\ (pc = "done" /\ c.got[2] = "ok") => res.status = 200

\* ------------------------------------------------------------------- C11
TokenRoutes == ProxyRoutes \cup {"/auth/callback"}

\* The token answers that arrive in this step: the callback's exchange, and
\* the answer to each sfetch call whose refreshAccessToken returns.
Arrived ==
    (IF exchange' # exchange THEN {exchange'} ELSE {})
    \cup (IF route \in ProxyRoutes /\ Len(calls') = Len(calls)
          THEN {calls'[i].tokGot[Len(calls'[i].tokGot)] :
                   i \in {j \in DOMAIN calls :
                             Len(calls'[j].tokGot) > Len(calls[j].tokGot)}}
          ELSE {})

\* C11: on the routes of server/index.ts a step writes spotify_access_token
\* (resp. spotify_refresh_token) only with the non-empty access_token (resp.
\* refresh_token) of an OK answer of the token endpoint that arrives in this
\* step; a step in which a non-OK answer arrives leaves both cookies as they
\* were, makes the callback respond 500 without a redirect, and makes
\* refreshAccessToken return null (sfetch throws "Unauthorized and refresh
\* failed" and no retry is made).
C11_Step ==
    route \in TokenRoutes /\ route' = route =>
      /\ res'.access # res.access =>
            \E t \in Arrived : /\ t.kind = "ok" /\ Truthy(t.access_token)
                                /\ res'.access = t.access_token
      /\ res'.refresh # res.refresh =>
            \E t \in Arrived : /\ t.kind = "ok" /\ Truthy(t.refresh_token)
                                /\ res'.refresh = t.refresh_token
      /\ (\E t \in Arrived : t.kind = "nonok") =>
            /\ res'.access = res.access /\ res'.refresh = res.refresh
            /\ route = "/auth/callback" =>
                  /\ res'.sent = 1 /\ res'.status = 500
                  /\ res'.location = res.location
                  /\ res'.access = Undefined /\ res'.refresh = Undefined
            /\ route \in ProxyRoutes =>
                  \A i \in DOMAIN calls :
                     Len(calls'[i].tokGot) > Len(calls[i].tokGot) =>
                        /\ calls'[i].pc = "thrown"
                        /\ calls'[i].result = RefreshFailed
                        /\ calls'[i].issued = Undefined

C11_CookiesOnlyFromOkToken == [][C11_Step]_vars

\* One request in which an OK answer wrote a cookie and a later non-OK
\* answer to another refresh left it alone.
C11_Witness ==
    /\ route \in ProxyRoutes
    /\ res.access = "tB"
    /\ \E i, j \in DOMAIN calls :
          /\ calls[i].tokGot # <<>> /\ calls[i].tokGot[1].kind = "ok"
          /\ calls[i].tokGot[1].access_token = "tB"
          /\ calls[j].tokGot # <<>> /\ calls[j].tokGot[1].kind = "nonok"
          /\ calls[j].pc = "thrown"

====
